---- MODULE Spec2Model ----
(***************************************************************************)
(* A model of main.py, the LigaMagic cart exporter: the text helpers       *)
(* (clean_text, parse_price, extract_content_in_parentheses), the          *)
(* per-item extractor extract_item_data and the batch driver               *)
(* process_html_to_excel.                                                  *)
(*                                                                         *)
(* A Python str is modelled as a sequence of one-character strings, so     *)
(* that substring tests, regular expressions and number parsing are        *)
(* computed character by character as the code computes them.  A float is  *)
(* modelled as the exact decimal [num |-> n, exp |-> k] = n / 10^k in      *)
(* canonical form (no trailing zero in the fraction); binary rounding      *)
(* error of IEEE doubles is not modelled.                                  *)
(***************************************************************************)
EXTENDS Integers, Sequences, FiniteSets, TLC

VARIABLES
    pc,               \* position in the running function
    input_exists,     \* input_file.exists()
    items_html,       \* soup.select(selectors["item_container"])
    idx,              \* 1-based position of the for loop over items_html
    extracted_items,  \* list of row dicts accumulated by the loop
    df,               \* rows of the DataFrame handed to to_excel
    writer_calls,     \* number of times df.to_excel was invoked
    output_written,   \* TRUE once output_file holds the spreadsheet
    reports,          \* messages printed to the operator
    exit_code,        \* process exit status, -1 while running
    price_tag,        \* the price node of a container (None when absent)
    price_arg,        \* the argument parse_price is called with
    price_ret,        \* value returned by parse_price
    desc_tag,         \* one description node
    desc_text,        \* its cleaned text, the argument of the extractor
    paren_ret,        \* value returned by extract_content_in_parentheses
    item_soup,        \* one cart-line container
    di,               \* 1-based position of the loop over description_tags
    item_locals,      \* the classification variables of extract_item_data
    item_obj          \* value returned by extract_item_data

vars == <<pc, input_exists, items_html, idx, extracted_items, df, writer_calls,
          output_written, reports, exit_code, price_tag, price_arg, price_ret,
          desc_tag, desc_text, paren_ret, item_soup, di, item_locals, item_obj>>

processVars == <<input_exists, items_html, idx, extracted_items, df, writer_calls,
                 output_written, reports, exit_code>>
priceVars == <<price_tag, price_arg, price_ret>>
parenVars == <<desc_tag, desc_text, paren_ret>>
itemVars == <<item_soup, di, item_locals>>

\* Python's None where an object (a tag, a CardItem) is expected, and where a
\* str is expected (a str is a sequence here, and None must compare with one).
None == [none |-> TRUE]
NoneStr == <<"None">>

\* What float() gives instead of a value when it raises.
ValueError == [raised |-> "ValueError"]

-----------------------------------------------------------------------------
(* Bounds of the model. *)

MaxPriceLen == 3   \* longest generated price text
MaxTextLen == 4    \* longest generated description text for the parenthesis extractor
MaxFrags == 3      \* most description nodes under one container
MaxItems == 3      \* most cart-line containers in the document

-----------------------------------------------------------------------------
(* Strings. *)

\* All sequences over S of length at most n.
SeqsUpTo(S, n) == UNION {[1..m -> S] : m \in 0..n}

Digits == {"0", "1", "2", "3", "4", "5", "6", "7", "8", "9"}

DigitVal(c) ==
    CASE c = "0" -> 0 [] c = "1" -> 1 [] c = "2" -> 2 [] c = "3" -> 3
      [] c = "4" -> 4 [] c = "5" -> 5 [] c = "6" -> 6 [] c = "7" -> 7
      [] c = "8" -> 8 [] c = "9" -> 9

\* The characters str.split() treats as separators.
Whitespace == {" ", "\t", "\n", "\r", "\f"}

\* kw in text
Contains(text, kw) ==
    \E i \in 1..(Len(text) - Len(kw) + 1) : SubSeq(text, i, i + Len(kw) - 1) = kw

\* text.split(): the maximal runs of non-whitespace characters, in order.
RECURSIVE split(_)
split(text) ==
    IF text = <<>> THEN <<>>
    ELSE IF Head(text) \in Whitespace THEN split(Tail(text))
    ELSE LET ends == {j \in 1..Len(text) : j = Len(text) \/ text[j + 1] \in Whitespace}
             e == CHOOSE j \in ends : \A j2 \in ends : j <= j2
         IN  <<SubSeq(text, 1, e)>> \o split(SubSeq(text, e + 1, Len(text)))

\* sep.join(parts)
RECURSIVE join(_, _)
join(sep, parts) ==
    IF parts = <<>> THEN <<>>
    ELSE IF Len(parts) = 1 THEN parts[1]
    ELSE parts[1] \o sep \o join(sep, Tail(parts))

clean_text(text) ==
    IF text = NoneStr THEN <<>> ELSE join(<<" ">>, split(text))

-----------------------------------------------------------------------------
(* Numbers. *)

RECURSIVE Pow10(_)
Pow10(k) == IF k = 0 THEN 1 ELSE 10 * Pow10(k - 1)

\* The canonical form of n / 10^k.
RECURSIVE Decimal(_, _)
Decimal(n, k) ==
    IF k > 0 /\ n % 10 = 0 THEN Decimal(n \div 10, k - 1) ELSE [num |-> n, exp |-> k]

\* The value of a digit string (0 for the empty string).
RECURSIVE DigitsValue(_)
DigitsValue(s) ==
    IF s = <<>> THEN 0
    ELSE 10 * DigitsValue(SubSeq(s, 1, Len(s) - 1)) + DigitVal(s[Len(s)])

\* float(s) for a string of digits and '.', the only characters parse_price
\* leaves in it: at least one digit and at most one '.', else ValueError.
float(s) ==
    LET dots == {i \in 1..Len(s) : s[i] = "."}
        digs == SelectSeq(s, LAMBDA c : c \in Digits)
    IN  IF \/ \E i \in 1..Len(s) : s[i] \notin Digits \cup {"."}
           \/ Cardinality(dots) > 1
           \/ digs = <<>>
        THEN ValueError
        ELSE IF dots = {} THEN Decimal(DigitsValue(s), 0)
        ELSE LET d == CHOOSE i \in dots : TRUE
             IN  Decimal(DigitsValue(digs), Len(s) - d)

\* s.strip(), as int() applies it to its argument.
strip(s) ==
    LET nonws == {i \in 1..Len(s) : s[i] \notin Whitespace}
    IN  IF nonws = {} THEN <<>>
        ELSE SubSeq(s, CHOOSE i \in nonws : \A j \in nonws : i <= j,
                       CHOOSE i \in nonws : \A j \in nonws : j <= i)

\* The digits part of an integer literal: what follows the optional sign.
Unsigned(body) == IF body /= <<>> /\ body[1] \in {"+", "-"} THEN Tail(body) ELSE body

\* int(s) raises ValueError unless s, stripped, is an optional sign followed
\* by digits, with single underscores allowed between digits.
int_raises(s) ==
    LET lit == Unsigned(strip(s))
    IN  \/ lit = <<>>
        \/ \E i \in 1..Len(lit) : lit[i] \notin Digits \cup {"_"}
        \/ lit[1] = "_" \/ lit[Len(lit)] = "_"
        \/ \E i \in 1..(Len(lit) - 1) : lit[i] = "_" /\ lit[i + 1] = "_"

\* A variant that drops the sign.
int_Magnitude(s) == DigitsValue(SelectSeq(Unsigned(strip(s)), LAMBDA c : c \in Digits))

\* int(s) where it does not raise.
int(s) ==
    LET body == strip(s)
        mag == DigitsValue(SelectSeq(Unsigned(body), LAMBDA c : c \in Digits))
    IN  IF body[1] = "-" THEN 0 - mag ELSE mag

\* quantidade * preco_unitario, an int times a float.
Times(q, x) == Decimal(q * x.num, x.exp)

\* Series.round(2): to the nearest multiple of 0.01, ties to the even one.
round2(x) ==
    IF x.exp <= 2 THEN x
    ELSE LET unit == Pow10(x.exp - 2)
             mag == IF x.num < 0 THEN 0 - x.num ELSE x.num
             quo == mag \div unit
             rest == mag % unit
             up == \/ 2 * rest > unit
                   \/ 2 * rest = unit /\ quo % 2 = 1
             cents == IF up THEN quo + 1 ELSE quo
         IN  Decimal(IF x.num < 0 THEN 0 - cents ELSE cents, 2)

-----------------------------------------------------------------------------
(* parse_price and extract_content_in_parentheses. *)

\* A variant that also keeps '.', as if the pattern were [^\d,.].
StripNonPrice_KeepsDots(price_str) ==
    SelectSeq(price_str, LAMBDA c : c \in Digits \cup {",", "."})

\* re.sub(r"[^\d,]", "", price_str)
StripNonPrice(price_str) == SelectSeq(price_str, LAMBDA c : c \in Digits \cup {","})

\* clean_nums.replace(",", ".")
CommaToDot(clean_nums) ==
    [i \in 1..Len(clean_nums) |-> IF clean_nums[i] = "," THEN "." ELSE clean_nums[i]]

parse_price(price_str) ==
    IF price_str = <<>> THEN Decimal(0, 0)
    ELSE LET clean_nums == CommaToDot(StripNonPrice(price_str))
             value == float(clean_nums)
         IN  IF value = ValueError THEN Decimal(0, 0) ELSE value

\* re.search(r"\((.*?)\)", text): the leftmost '(' from which a ')' can be
\* reached over characters '.' matches (any but a line feed), and from it the
\* shortest such run.
ParenMatches(text) ==
    {m \in (1..Len(text)) \X (1..Len(text)) :
        /\ m[1] < m[2]
        /\ text[m[1]] = "("
        /\ text[m[2]] = ")"
        /\ \A k \in (m[1] + 1)..(m[2] - 1) : text[k] /= "\n"}

\* A variant with the greedy pattern \((.*)\): the run ends at the last ')'.
extract_content_greedy(text) ==
    LET ms == ParenMatches(text)
    IN  IF ms = {} THEN text
        ELSE LET first == CHOOSE m \in ms :
                              \A m2 \in ms : m[1] < m2[1] \/ (m[1] = m2[1] /\ m[2] >= m2[2])
             IN  SubSeq(text, first[1] + 1, first[2] - 1)

extract_content_in_parentheses(text) ==
    LET ms == ParenMatches(text)
    IN  IF ms = {} THEN text
        ELSE LET first == CHOOSE m \in ms :
                              \A m2 \in ms : m[1] < m2[1] \/ (m[1] = m2[1] /\ m[2] <= m2[2])
             IN  SubSeq(text, first[1] + 1, first[2] - 1)

-----------------------------------------------------------------------------
(* Configuration. *)

KEYWORDS ==
    [idioma |-> <<
        <<"A", "l", "e", "m", "ã", "o">>,
        <<"C", "h", "i", "n", "ê", "s">>,
        <<"E", "s", "p", "a", "n", "h", "o", "l">>,
        <<"F", "r", "a", "n", "c", "ê", "s">>,
        <<"I", "n", "g", "l", "ê", "s">>,
        <<"I", "t", "a", "l", "i", "a", "n", "o">>,
        <<"J", "a", "p", "o", "n", "ê", "s">>,
        <<"C", "o", "r", "e", "a", "n", "o">>,
        <<"P", "o", "r", "t", "u", "g", "u", "ê", "s">>,
        <<"R", "u", "s", "s", "o">>,
        <<"P", "h", "y", "r", "e", "x", "i", "a", "n", "o">> >>,
     condicao |-> <<
        <<"A", "b", "e", "r", "t", "o">>,
        <<"L", "a", "c", "r", "a", "d", "o">>,
        <<"N", "o", "v", "o">>,
        <<"U", "s", "a", "d", "o">>,
        <<"N", "o", "v", "a">>,
        <<"U", "s", "a", "d", "a">>,
        <<"D", "a", "n", "i", "f", "i", "c", "a", "d", "a">> >>,
     extras |-> <<
        <<"F", "o", "i", "l">>,
        <<"P", "r", "o", "m", "o">>,
        <<"P", "r", "e", " ", "R", "e", "l", "e", "a", "s", "e">> >>]

\* any(kw in text for kw in kws)
any_kw_in(kws, text) == \E n \in 1..Len(kws) : Contains(text, kws[n])

\* The "N/A" every classification field starts from.
NA == <<"N", "/", "A">>

-----------------------------------------------------------------------------
(* CardItem. *)

\* A variant that forgets the quantity.
preco_total_UnitOnly(self) == self.preco_unitario

preco_total(self) == Times(self.quantidade, self.preco_unitario)

to_dict(self) ==
    [key \in {"Nome (Português)", "Nome (Inglês)", "Expansão", "Idioma", "Condição",
              "Extras", "Quantidade", "Preço Unitário", "Preço Total", "Link"} |->
        CASE key = "Nome (Português)" -> self.nome_pt
          [] key = "Nome (Inglês)" -> self.nome_en
          [] key = "Expansão" -> self.expansao
          [] key = "Idioma" -> self.idioma
          [] key = "Condição" -> self.condicao
          [] key = "Extras" -> self.extras
          [] key = "Quantidade" -> self.quantidade
          [] key = "Preço Unitário" -> self.preco_unitario
          [] key = "Preço Total" -> preco_total(self)
          [] key = "Link" -> self.link]

-----------------------------------------------------------------------------
(* extract_item_data. *)

(* A cart-line container, as the selectors see it:                         *)
(*   h3           None, or [text, a] where a is None or [href]             *)
(*   subtitle     None, or [text]                                          *)
(*   price        None, or [text]                                          *)
(*   qty          None, or [value]                                         *)
(*   descriptions a sequence of [text]                                     *)
(* An attribute the tag does not carry is NoneStr.  The link selector is   *)
(* "h3.checkout-product--title a", so a link node lies inside the h3.      *)
select_one(soup, selector) ==
    CASE selector = "link" -> IF soup.h3 = None THEN None ELSE soup.h3.a
      [] selector = "nome_pt" -> soup.h3
      [] selector = "nome_en" -> soup.subtitle
      [] selector = "preco" -> soup.price
      [] selector = "quantidade" -> soup.qty

\* The classification variables before the loop.
InitialLocals ==
    [expansao |-> NA, idioma |-> NA, condicao |-> NA,
     extras_list |-> <<>>, remaining_descriptions |-> <<>>]

\* A variant that tests the condition keywords before the language keywords.
ClassifyOne_ConditionFirst(locals, desc) ==
    LET text == clean_text(desc.text)
    IN  IF any_kw_in(KEYWORDS.condicao, text)
        THEN [locals EXCEPT !.condicao = extract_content_in_parentheses(text)]
        ELSE IF any_kw_in(KEYWORDS.idioma, text)
        THEN [locals EXCEPT !.idioma = text]
        ELSE IF any_kw_in(KEYWORDS.extras, text)
        THEN [locals EXCEPT !.extras_list = Append(@, text)]
        ELSE [locals EXCEPT !.remaining_descriptions = Append(@, text)]

\* A variant that keeps the first language match instead of the last.
ClassifyOne_FirstLanguageWins(locals, desc) ==
    LET text == clean_text(desc.text)
    IN  IF any_kw_in(KEYWORDS.idioma, text)
        THEN IF locals.idioma = NA THEN [locals EXCEPT !.idioma = text] ELSE locals
        ELSE IF any_kw_in(KEYWORDS.condicao, text)
        THEN [locals EXCEPT !.condicao = extract_content_in_parentheses(text)]
        ELSE IF any_kw_in(KEYWORDS.extras, text)
        THEN [locals EXCEPT !.extras_list = Append(@, text)]
        ELSE [locals EXCEPT !.remaining_descriptions = Append(@, text)]

\* One iteration of the loop over description_tags.
ClassifyOne(locals, desc) ==
    LET text == clean_text(desc.text)
    IN  IF any_kw_in(KEYWORDS.idioma, text)
        THEN [locals EXCEPT !.idioma = text]
        ELSE IF any_kw_in(KEYWORDS.condicao, text)
        THEN [locals EXCEPT !.condicao = extract_content_in_parentheses(text)]
        ELSE IF any_kw_in(KEYWORDS.extras, text)
        THEN [locals EXCEPT !.extras_list = Append(@, text)]
        ELSE [locals EXCEPT !.remaining_descriptions = Append(@, text)]

\* The whole loop: the locals after the first n description tags.
RECURSIVE ClassifyAll(_, _)
ClassifyAll(description_tags, n) ==
    IF n = 0 THEN InitialLocals
    ELSE ClassifyOne(ClassifyAll(description_tags, n - 1), description_tags[n])

\* A variant that takes the last unmatched description as the expansion.
BuildCardItem_LastRemaining(soup, locals) ==
    LET name_en_tag == select_one(soup, "nome_en")
        price_tag_ == select_one(soup, "preco")
        price_text == IF price_tag_ /= None THEN clean_text(price_tag_.text) ELSE <<"0">>
        rest == locals.remaining_descriptions
    IN  [nome_pt |-> clean_text(select_one(soup, "nome_pt").text),
         nome_en |-> IF name_en_tag /= None THEN clean_text(name_en_tag.text) ELSE <<>>,
         expansao |-> IF rest /= <<>> THEN rest[Len(rest)] ELSE locals.expansao,
         idioma |-> locals.idioma,
         condicao |-> locals.condicao,
         extras |-> IF locals.extras_list /= <<>>
                    THEN join(<<",", " ">>, locals.extras_list) ELSE NA,
         link |-> select_one(soup, "link").href,
         quantidade |-> int(select_one(soup, "quantidade").value),
         preco_unitario |-> parse_price(price_text)]

\* The statements after the loop: extras joined, the expansion chosen, the
\* CardItem built.
BuildCardItem(soup, locals) ==
    LET name_en_tag == select_one(soup, "nome_en")
        price_tag_ == select_one(soup, "preco")
        price_text == IF price_tag_ /= None THEN clean_text(price_tag_.text) ELSE <<"0">>
    IN  [nome_pt |-> clean_text(select_one(soup, "nome_pt").text),
         nome_en |-> IF name_en_tag /= None THEN clean_text(name_en_tag.text) ELSE <<>>,
         expansao |-> IF locals.remaining_descriptions /= <<>>
                      THEN locals.remaining_descriptions[1] ELSE locals.expansao,
         idioma |-> locals.idioma,
         condicao |-> locals.condicao,
         extras |-> IF locals.extras_list /= <<>>
                    THEN join(<<",", " ">>, locals.extras_list) ELSE NA,
         link |-> select_one(soup, "link").href,
         quantidade |-> int(select_one(soup, "quantidade").value),
         preco_unitario |-> parse_price(price_text)]

\* The safety check for essential elements fails.
MissingEssential(soup) ==
    \/ select_one(soup, "link") = None
    \/ select_one(soup, "nome_pt") = None
    \/ select_one(soup, "quantidade") = None

\* A statement of the try block raises: link_tag["href"] or qty_tag["value"]
\* a KeyError, int() a ValueError.
Raises(soup) ==
    \/ select_one(soup, "link").href = NoneStr
    \/ select_one(soup, "quantidade").value = NoneStr
    \/ int_raises(select_one(soup, "quantidade").value)

\* The value returned, and whether the warning of the except clause was printed.
extract_item_data(soup) ==
    IF MissingEssential(soup) THEN [ret |-> None, warned |-> FALSE]
    ELSE IF Raises(soup) THEN [ret |-> None, warned |-> TRUE]
    ELSE [ret |-> BuildCardItem(soup, ClassifyAll(soup.descriptions, Len(soup.descriptions))),
          warned |-> FALSE]

-----------------------------------------------------------------------------
(* Inputs. *)

\* Description texts as they stand in the page, before clean_text.
F_ingles == <<"I", "n", "g", "l", "ê", "s">>
F_japones == <<"J", "a", "p", "o", "n", "ê", "s">>
F_novo_nm == <<" ", "N", "o", "v", "o", " ", " ", "(", "N", "M", ")", " ">>
F_foil == <<"F", "o", "i", "l">>
F_kaladesh == <<"K", "a", "l", "a", "d", "e", "s", "h">>
F_zendikar == <<"Z", "e", "n", "d", "i", "k", "a", "r">>
F_promo_ingles_usado ==
    <<"P", "r", "o", "m", "o", " ", "I", "n", "g", "l", "ê", "s", " ", "U", "s", "a", "d", "o">>
F_foil_lacrado ==
    <<"F", "o", "i", "l", " ", "L", "a", "c", "r", "a", "d", "o", " ", "(", "S", "P", ")">>
F_blank == <<" ", " ">>
F_pre_release == <<"P", "r", "e", "\n", "R", "e", "l", "e", "a", "s", "e">>

Fragments ==
    {F_ingles, F_japones, F_novo_nm, F_foil, F_kaladesh, F_zendikar,
     F_promo_ingles_usado, F_foil_lacrado, F_blank, F_pre_release}

Tag(t) == [text |-> t]

\* Price texts.
P_1250_50 == <<"R", "$", " ", "1", ".", "2", "5", "0", ",", "5", "0">>
P_10_00 == <<"R", "$", " ", "1", "0", ",", "0", "0">>
P_1_004 == <<"R", "$", " ", "1", ",", "0", "0", "4">>
P_garbage == <<"g", "a", "r", "b", "a", "g", "e">>

PriceAlphabet == {"0", "1", "5", ",", ".", "R", " "}
PriceTexts == SeqsUpTo(PriceAlphabet, MaxPriceLen) \cup {P_1250_50, P_10_00, P_1_004, P_garbage}

ParenAlphabet == {"(", ")", "a", " ", "\n"}
ParenTexts == SeqsUpTo(ParenAlphabet, MaxTextLen)

\* Cart-line containers.
Name_raio == <<"R", "a", "i", "o">>
Name_bolt == <<"L", "i", "g", "h", "t", "n", "i", "n", "g", " ", "B", "o", "l", "t">>

Href(n) == <<"/", "c", "/", n>>

Container(href, value, price, descriptions) ==
    [h3 |-> [text |-> Name_raio, a |-> [href |-> href]],
     subtitle |-> Tag(Name_bolt),
     price |-> price,
     qty |-> [value |-> value],
     descriptions |-> descriptions]

C_full ==
    Container(Href("1"), <<"2">>, Tag(P_1250_50),
              <<Tag(F_ingles), Tag(F_novo_nm), Tag(F_foil), Tag(F_kaladesh)>>)
C_bare ==
    [Container(Href("2"), <<" ", "3", " ">>, None, <<>>) EXCEPT !.subtitle = None]
C_negative == Container(Href("3"), <<"-", "1">>, Tag(P_1_004), <<Tag(F_zendikar)>>)
C_three == Container(Href("4"), <<"3">>, Tag(P_1_004), <<Tag(F_foil), Tag(F_pre_release)>>)
C_zero == Container(Href("5"), <<"0">>, Tag(P_10_00), <<>>)
C_no_h3 == [C_full EXCEPT !.h3 = None]
C_no_link == [C_full EXCEPT !.h3.a = None]
C_no_href == [C_full EXCEPT !.h3.a.href = NoneStr]
C_no_qty == [C_full EXCEPT !.qty = None]
C_no_value == [C_full EXCEPT !.qty.value = NoneStr]
C_bad_qty == [C_full EXCEPT !.qty.value = <<"1", ".", "5">>]

Containers ==
    {C_full, C_bare, C_negative, C_three, C_zero, C_no_h3, C_no_link, C_no_href,
     C_no_qty, C_no_value, C_bad_qty}

-----------------------------------------------------------------------------
(* process_html_to_excel. *)

ProcessIdle ==
    /\ input_exists = FALSE
    /\ items_html = <<>>
    /\ idx = 0
    /\ extracted_items = <<>>
    /\ df = <<>>
    /\ writer_calls = 0
    /\ output_written = FALSE
    /\ reports = <<>>
    /\ exit_code = -1

PriceIdle == price_tag = None /\ price_arg = <<>> /\ price_ret = None
ParenIdle == desc_tag = None /\ desc_text = <<>> /\ paren_ret = <<>>
ItemIdle == item_soup = None /\ di = 0 /\ item_locals = None

Init ==
    /\ pc = "start"
    /\ input_exists \in BOOLEAN
    /\ items_html \in (IF input_exists THEN SeqsUpTo(Containers, MaxItems) ELSE {<<>>})
    /\ idx = 0
    /\ extracted_items = <<>>
    /\ df = <<>>
    /\ writer_calls = 0
    /\ output_written = FALSE
    /\ reports = <<>>
    /\ exit_code = -1
    /\ item_obj = None
    /\ PriceIdle /\ ParenIdle /\ ItemIdle

\* input_file does not exist: the error is printed and sys.exit(1) ends the run.
MissingInput ==
    /\ pc = "start"
    /\ ~input_exists
    /\ reports' = Append(reports, "ERROR: File not found.")
    /\ exit_code' = 1
    /\ pc' = "exited"
    /\ UNCHANGED <<input_exists, items_html, idx, extracted_items, df, writer_calls,
                   output_written, item_obj, priceVars, parenVars, itemVars>>

\* The container selector matches nothing.
NoItems ==
    /\ pc = "start"
    /\ input_exists
    /\ items_html = <<>>
    /\ reports' = Append(reports, "ERROR: No cart items found")
    /\ pc' = "returned"
    /\ UNCHANGED <<input_exists, items_html, idx, extracted_items, df, writer_calls,
                   output_written, exit_code, item_obj, priceVars, parenVars, itemVars>>

BeginExtract ==
    /\ pc = "start"
    /\ input_exists
    /\ items_html /= <<>>
    /\ reports' = Append(reports, "2. Found items. Extracting information...")
    /\ extracted_items' = <<>>
    /\ idx' = 1
    /\ pc' = "loop"
    /\ UNCHANGED <<input_exists, items_html, df, writer_calls, output_written,
                   exit_code, item_obj, priceVars, parenVars, itemVars>>

\* A variant in which a failed item ends the loop.
ExtractNext_AbortsOnFailure ==
    /\ pc = "loop"
    /\ idx <= Len(items_html)
    /\ LET r == extract_item_data(items_html[idx])
       IN  /\ item_obj' = r.ret
           /\ reports' = IF r.warned
                         THEN Append(reports, "Warning: Failed to parse specific item.")
                         ELSE reports
           /\ extracted_items' = IF r.ret /= None
                                 THEN Append(extracted_items, to_dict(r.ret))
                                 ELSE extracted_items
           /\ idx' = IF r.ret /= None THEN idx + 1 ELSE Len(items_html) + 1
    /\ UNCHANGED <<pc, input_exists, items_html, df, writer_calls, output_written,
                   exit_code, priceVars, parenVars, itemVars>>

\* One iteration of the loop over items_html.
ExtractNext ==
    /\ pc = "loop"
    /\ idx <= Len(items_html)
    /\ LET r == extract_item_data(items_html[idx])
       IN  /\ item_obj' = r.ret
           /\ reports' = IF r.warned
                         THEN Append(reports, "Warning: Failed to parse specific item.")
                         ELSE reports
           /\ extracted_items' = IF r.ret /= None
                                 THEN Append(extracted_items, to_dict(r.ret))
                                 ELSE extracted_items
    /\ idx' = idx + 1
    /\ UNCHANGED <<pc, input_exists, items_html, df, writer_calls, output_written,
                   exit_code, priceVars, parenVars, itemVars>>

\* The loop is over and nothing was extracted.
NoData ==
    /\ pc = "loop"
    /\ idx > Len(items_html)
    /\ extracted_items = <<>>
    /\ reports' = Append(reports, "ERROR: No data could be extracted.")
    /\ pc' = "returned"
    /\ UNCHANGED <<input_exists, items_html, idx, extracted_items, df, writer_calls,
                   output_written, exit_code, item_obj, priceVars, parenVars, itemVars>>

\* pd.DataFrame(extracted_items) with the two price columns rounded.
RoundedFrame(rows) ==
    [j \in 1..Len(rows) |->
        [rows[j] EXCEPT !["Preço Unitário"] = round2(@), !["Preço Total"] = round2(@)]]

\* A variant without the early return on an empty extracted_items.
WriteOk_Unguarded ==
    /\ pc = "loop"
    /\ idx > Len(items_html)
    /\ df' = RoundedFrame(extracted_items)
    /\ writer_calls' = writer_calls + 1
    /\ output_written' = TRUE
    /\ reports' = Append(reports, "Done! Data successfully saved")
    /\ pc' = "returned"
    /\ UNCHANGED <<input_exists, items_html, idx, extracted_items, exit_code,
                   item_obj, priceVars, parenVars, itemVars>>

\* The frame is built and df.to_excel succeeds.
WriteOk ==
    /\ pc = "loop"
    /\ idx > Len(items_html)
    /\ extracted_items /= <<>>
    /\ df' = RoundedFrame(extracted_items)
    /\ writer_calls' = writer_calls + 1
    /\ output_written' = TRUE
    /\ reports' = Append(reports, "Done! Data successfully saved")
    /\ pc' = "returned"
    /\ UNCHANGED <<input_exists, items_html, idx, extracted_items, exit_code,
                   item_obj, priceVars, parenVars, itemVars>>

\* df.to_excel raises: the except clause prints the cause and the function
\* returns.
WriteFail ==
    /\ pc = "loop"
    /\ idx > Len(items_html)
    /\ extracted_items /= <<>>
    /\ df' = RoundedFrame(extracted_items)
    /\ writer_calls' = writer_calls + 1
    /\ reports' = Append(reports, "ERROR: Failed to save Excel file.")
    /\ pc' = "returned"
    /\ UNCHANGED <<input_exists, items_html, idx, extracted_items, output_written,
                   exit_code, item_obj, priceVars, parenVars, itemVars>>

\* process_html_to_excel returned to the script, which ends: exit status 0.
ProcessExit ==
    /\ pc = "returned"
    /\ exit_code' = 0
    /\ pc' = "exited"
    /\ UNCHANGED <<input_exists, items_html, idx, extracted_items, df, writer_calls,
                   output_written, reports, item_obj, priceVars, parenVars, itemVars>>

Next ==
    \/ MissingInput
    \/ NoItems
    \/ BeginExtract
    \/ ExtractNext
    \/ NoData
    \/ WriteOk
    \/ WriteFail
    \/ ProcessExit

Spec == Init /\ [][Next]_vars

-----------------------------------------------------------------------------
(* parse_price on the price text of one container. *)

InitPrice ==
    /\ pc = "price"
    /\ price_tag \in {None} \cup {Tag(t) : t \in PriceTexts}
    /\ price_arg = <<>>
    /\ price_ret = None
    /\ item_obj = None
    /\ ProcessIdle /\ ParenIdle /\ ItemIdle

\* price_text = clean_text(price_tag.text) if price_tag else "0"
\* preco = parse_price(price_text)
ParsePrice ==
    /\ pc = "price"
    /\ price_arg' = IF price_tag /= None THEN clean_text(price_tag.text) ELSE <<"0">>
    /\ price_ret' = parse_price(price_arg')
    /\ pc' = "price_done"
    /\ UNCHANGED <<price_tag, item_obj, processVars, parenVars, itemVars>>

NextPrice == ParsePrice

SpecPrice == InitPrice /\ [][NextPrice]_vars

-----------------------------------------------------------------------------
(* extract_content_in_parentheses on the text of one description node. *)

InitParen ==
    /\ pc = "paren"
    /\ desc_tag \in {Tag(t) : t \in ParenTexts}
    /\ desc_text = <<>>
    /\ paren_ret = <<>>
    /\ item_obj = None
    /\ ProcessIdle /\ PriceIdle /\ ItemIdle

\* desc_text = clean_text(desc_tag.text)
CleanDescription ==
    /\ pc = "paren"
    /\ desc_text' = clean_text(desc_tag.text)
    /\ pc' = "paren_call"
    /\ UNCHANGED <<desc_tag, paren_ret, item_obj, processVars, priceVars, itemVars>>

\* condicao = extract_content_in_parentheses(desc_text)
ExtractParentheses ==
    /\ pc = "paren_call"
    /\ paren_ret' = extract_content_in_parentheses(desc_text)
    /\ pc' = "paren_done"
    /\ UNCHANGED <<desc_tag, desc_text, item_obj, processVars, priceVars, itemVars>>

NextParen == CleanDescription \/ ExtractParentheses

SpecParen == InitParen /\ [][NextParen]_vars

-----------------------------------------------------------------------------
(* extract_item_data on one container, one description node at a time. *)

InitItem ==
    /\ pc = "item"
    /\ \E ds \in SeqsUpTo(Fragments, MaxFrags) :
          item_soup = [C_full EXCEPT !.descriptions = [j \in 1..Len(ds) |-> Tag(ds[j])]]
    /\ di = 0
    /\ item_locals = None
    /\ item_obj = None
    /\ ProcessIdle /\ PriceIdle /\ ParenIdle

\* The essential elements are there and no read raises: the classification
\* variables are initialised and the description tags selected.
BeginItem ==
    /\ pc = "item"
    /\ ~MissingEssential(item_soup)
    /\ ~Raises(item_soup)
    /\ item_locals' = InitialLocals
    /\ di' = 1
    /\ pc' = "classify"
    /\ UNCHANGED <<item_soup, item_obj, processVars, priceVars, parenVars>>

ClassifyFragment ==
    /\ pc = "classify"
    /\ di <= Len(item_soup.descriptions)
    /\ item_locals' = ClassifyOne(item_locals, item_soup.descriptions[di])
    /\ di' = di + 1
    /\ UNCHANGED <<pc, item_soup, item_obj, processVars, priceVars, parenVars>>

FinishItem ==
    /\ pc = "classify"
    /\ di > Len(item_soup.descriptions)
    /\ item_obj' = BuildCardItem(item_soup, item_locals)
    /\ pc' = "item_done"
    /\ UNCHANGED <<item_soup, di, item_locals, processVars, priceVars, parenVars>>

NextItem == BeginItem \/ ClassifyFragment \/ FinishItem

SpecItem == InitItem /\ [][NextItem]_vars

-----------------------------------------------------------------------------
(* Properties of the description classifier, under SpecItem. *)

HasLanguage(t) == any_kw_in(KEYWORDS.idioma, t)
HasCondition(t) == any_kw_in(KEYWORDS.condicao, t)
HasExtras(t) == any_kw_in(KEYWORDS.extras, t)

\* The cleaned texts of the container's description nodes, in document order.
Texts == [j \in 1..Len(item_soup.descriptions) |-> clean_text(item_soup.descriptions[j].text)]

Min(S) == CHOOSE x \in S : \A y \in S : x <= y
Max(S) == CHOOSE x \in S : \A y \in S : y <= x

\* C1: each fragment goes to exactly one bucket, chosen by the priority
\* language > condition > extras > unclassified: an iteration of the loop sets
\* idioma iff the fragment has a language keyword, sets condicao iff it has a
\* condition keyword and no language keyword, appends to extras_list iff it has
\* an extras keyword and neither of the others, appends to
\* remaining_descriptions iff it has no keyword, and leaves the other three
\* buckets as they were.
C1_PriorityBuckets ==
    [][(pc = "classify" /\ di' = di + 1) =>
        LET t == Texts[di]
            L == HasLanguage(t)
            C == ~L /\ HasCondition(t)
            E == ~L /\ ~C /\ HasExtras(t)
            U == ~L /\ ~C /\ ~E
        IN  /\ item_locals'.idioma = IF L THEN t ELSE item_locals.idioma
            /\ item_locals'.condicao =
                   IF C THEN extract_content_in_parentheses(t) ELSE item_locals.condicao
            /\ item_locals'.extras_list =
                   IF E THEN Append(item_locals.extras_list, t) ELSE item_locals.extras_list
            /\ item_locals'.remaining_descriptions =
                   IF U THEN Append(item_locals.remaining_descriptions, t)
                   ELSE item_locals.remaining_descriptions]_vars

\* A fragment with keywords of all three lists went to language only, and one
\* with a condition and an extras keyword went to condition only.
C1_Witness ==
    /\ pc = "classify"
    /\ di = 3
    /\ item_soup.descriptions = <<Tag(F_promo_ingles_usado), Tag(F_foil_lacrado)>>
    /\ item_locals.idioma = F_promo_ingles_usado
    /\ item_locals.condicao = <<"S", "P">>
    /\ item_locals.extras_list = <<>>
    /\ item_locals.remaining_descriptions = <<>>

\* The positions of the fragments that match no keyword list.
Unclassified == {j \in 1..Len(Texts) : ~HasLanguage(Texts[j]) /\ ~HasCondition(Texts[j])
                                        /\ ~HasExtras(Texts[j])}

\* The container without its second and later unclassified fragments.
FirstUnclassifiedOnly ==
    LET keep == {j \in 1..Len(Texts) : j \notin Unclassified \/ j = Min(Unclassified)}
        RECURSIVE Pick(_)
        Pick(n) == IF n = 0 THEN <<>>
                   ELSE IF n \in keep THEN Append(Pick(n - 1), item_soup.descriptions[n])
                   ELSE Pick(n - 1)
    IN  [item_soup EXCEPT !.descriptions = Pick(Len(Texts))]

\* C7: the edition of the record is the first fragment that matched no keyword
\* list, "N/A" when there is none, and the record is the one the container
\* gives without its second and later unclassified fragments.
C7_FirstUnclassifiedIsEdition ==
    pc = "item_done" =>
        /\ item_obj.expansao = IF Unclassified = {} THEN NA ELSE Texts[Min(Unclassified)]
        /\ item_obj = extract_item_data(FirstUnclassifiedOnly).ret

\* Two different unclassified fragments, the edition is the first.
C7_Witness ==
    /\ pc = "item_done"
    /\ Cardinality(Unclassified) >= 2
    /\ Texts[Min(Unclassified)] /= Texts[Max(Unclassified)]
    /\ item_obj.expansao = Texts[Min(Unclassified)]

\* C9: the language of the record is the last fragment, in document order, that
\* contains a language keyword, verbatim, and "N/A" when no fragment does.
C9_LastLanguageWins ==
    pc = "item_done" =>
        LET langs == {j \in 1..Len(Texts) : HasLanguage(Texts[j])}
        IN  item_obj.idioma = IF langs = {} THEN NA ELSE Texts[Max(langs)]

\* Two different language fragments, the language is the later one.
C9_Witness ==
    /\ pc = "item_done"
    /\ \E i, j \in 1..Len(Texts) :
          /\ i < j
          /\ HasLanguage(Texts[i]) /\ HasLanguage(Texts[j])
          /\ Texts[i] /= Texts[j]
          /\ \A k \in (j + 1)..Len(Texts) : ~HasLanguage(Texts[k])
          /\ item_obj.idioma = Texts[j]

-----------------------------------------------------------------------------
(* Properties of parse_price, under SpecPrice. *)

\* C5: parse_price returns a number for every argument: 0.0 when the argument
\* is empty, holds no digit or holds more than one comma, and otherwise the
\* number whose integer part is the digits before the comma and whose fraction
\* is the digits after it, every other character ignored.
C5_ParsePriceTotal ==
    pc = "price_done" =>
        LET commas == {i \in 1..Len(price_arg) : price_arg[i] = ","}
            digitsOf(s) == SelectSeq(s, LAMBDA c : c \in Digits)
        IN  /\ price_ret.num \in Nat
            /\ price_ret.exp \in Nat
            /\ IF price_arg = <<>> \/ digitsOf(price_arg) = <<>> \/ Cardinality(commas) > 1
               THEN price_ret.num = 0
               ELSE LET c == IF commas = {} THEN Len(price_arg) + 1 ELSE Min(commas)
                        whole == digitsOf(SubSeq(price_arg, 1, c - 1))
                        frac == digitsOf(SubSeq(price_arg, c + 1, Len(price_arg)))
                    IN  price_ret.num * Pow10(Len(frac)) =
                            (DigitsValue(whole) * Pow10(Len(frac)) + DigitsValue(frac))
                                * Pow10(price_ret.exp)

\* 'R$ 1.250,50' gave 1250.50.
C5_Witness ==
    /\ pc = "price_done"
    /\ price_arg = P_1250_50
    /\ price_ret = [num |-> 12505, exp |-> 1]

-----------------------------------------------------------------------------
(* Properties of extract_content_in_parentheses, under SpecParen. *)

\* C8: the result is the text between the first '(' that some ')' follows and
\* the nearest ')' after it, and the text itself when no '(' is followed by a
\* ')'.
C8_FirstParenthesesInterior ==
    pc = "paren_done" =>
        LET t == desc_text
            opens == {i \in 1..Len(t) : t[i] = "(" /\ \E j \in (i + 1)..Len(t) : t[j] = ")"}
        IN  IF opens = {} THEN paren_ret = t
            ELSE LET i == Min(opens)
                     j == Min({k \in (i + 1)..Len(t) : t[k] = ")"})
                 IN  paren_ret = SubSeq(t, i + 1, j - 1)

\* Two ')' follow the first '(': the interior ends at the nearer one.
C8_Witness ==
    /\ pc = "paren_done"
    /\ desc_text = <<"(", "a", ")", ")">>
    /\ paren_ret = <<"a">>

-----------------------------------------------------------------------------
(* Properties of process_html_to_excel, under Spec. *)

\* A container on which extract_item_data succeeds: the link, primary-name and
\* quantity nodes are there, with an href and a value that is an integer.
WellFormed(c) ==
    /\ c.h3 /= None
    /\ c.h3.a /= None
    /\ c.qty /= None
    /\ c.h3.a.href /= NoneStr
    /\ c.qty.value /= NoneStr
    /\ ~int_raises(c.qty.value)

\* The well-formed containers among the first n, in document order.
Good(n) == SelectSeq(SubSeq(items_html, 1, n), WellFormed)

\* The containers the loop has been through.
Processed ==
    IF pc = "loop" THEN idx - 1
    ELSE IF pc \in {"returned", "exited"} /\ idx > 0 THEN Len(items_html)
    ELSE 0

\* C2: the rows are those of the well-formed containers gone through, one
\* each and in document order; every other container is skipped, and when the
\* function has returned every container has been gone through, so that the
\* frame handed to the writer has one row per well-formed container.
C2_OneRowPerGoodContainer ==
    LET good == Good(Processed)
    IN  /\ Len(extracted_items) = Len(good)
        /\ \A j \in 1..Len(good) :
              /\ extracted_items[j]["Link"] = good[j].h3.a.href
              /\ extracted_items[j]["Nome (Português)"] = clean_text(good[j].h3.text)
        /\ writer_calls > 0 =>
              /\ Len(df) = Len(Good(Len(items_html)))
              /\ \A j \in 1..Len(df) : df[j]["Link"] = Good(Len(items_html))[j].h3.a.href

\* Three containers, the second without its quantity node: two rows written.
C2_Witness ==
    /\ pc = "exited"
    /\ items_html = <<C_full, C_no_qty, C_three>>
    /\ output_written
    /\ Len(df) = 2
    /\ df[1]["Link"] = Href("1")
    /\ df[2]["Link"] = Href("4")

\* C3: with no container, or with every container skipped, the writer is never
\* invoked and nothing is written; the condition is reported and the function
\* returns normally.
C3_NothingWrittenWithoutRecords ==
    (input_exists /\ Good(Len(items_html)) = <<>>) =>
        /\ writer_calls = 0
        /\ ~output_written
        /\ df = <<>>
        /\ pc \in {"returned", "exited"} =>
              reports[Len(reports)] = IF items_html = <<>>
                                      THEN "ERROR: No cart items found"
                                      ELSE "ERROR: No data could be extracted."
        /\ pc = "exited" => exit_code = 0

\* Two containers, both skipped: the run ended normally with nothing written.
C3_Witness ==
    /\ pc = "exited"
    /\ Len(items_html) >= 2
    /\ extracted_items = <<>>
    /\ reports[Len(reports)] = "ERROR: No data could be extracted."
    /\ writer_calls = 0
    /\ exit_code = 0

\* The writer was invoked and the spreadsheet was not written.
WriteFailed == writer_calls > 0 /\ ~output_written

\* C4: a failed write is reported and the run ends with a non-zero exit status.
C4_WriteFailureExitsNonZero ==
    WriteFailed =>
        /\ reports[Len(reports)] = "ERROR: Failed to save Excel file."
        /\ pc = "exited" => exit_code /= 0

\* x = q * u, for decimals x and u and an integer q.
IsProduct(x, q, u) == x.num * Pow10(u.exp) = q * u.num * Pow10(x.exp)

\* x is a multiple of 0.01 at most half of 0.01 away from q * u.
IsRoundedProduct(x, q, u) ==
    /\ x.exp <= 2
    /\ LET hundredths == x.num * Pow10(2 - x.exp)
           diff == hundredths * Pow10(u.exp) - 100 * q * u.num
       IN  2 * (IF diff < 0 THEN 0 - diff ELSE diff) <= Pow10(u.exp)

\* C6: the total of every row is the quantity times the unit price of its
\* record, and in the frame handed to the writer it is that product rounded to
\* two decimals.
C6_TotalIsQuantityTimesUnit ==
    /\ \A j \in 1..Len(extracted_items) :
          IsProduct(extracted_items[j]["Preço Total"], extracted_items[j]["Quantidade"],
                    extracted_items[j]["Preço Unitário"])
    /\ \A j \in 1..Len(df) :
          IsRoundedProduct(df[j]["Preço Total"], extracted_items[j]["Quantidade"],
                           extracted_items[j]["Preço Unitário"])

\* 3 at 1.004 each: 3.012 in the record, 3.01 in the frame, the unit price 1.00.
C6_Witness ==
    /\ output_written
    /\ \E j \in 1..Len(df) :
          /\ extracted_items[j]["Quantidade"] = 3
          /\ extracted_items[j]["Preço Unitário"] = [num |-> 1004, exp |-> 3]
          /\ extracted_items[j]["Preço Total"] = [num |-> 3012, exp |-> 3]
          /\ df[j]["Preço Unitário"] = [num |-> 1, exp |-> 0]
          /\ df[j]["Preço Total"] = [num |-> 301, exp |-> 2]

\* C10 as stated: every record and every row has a quantity >= 0.
C10_QuantityNonNegative ==
    /\ item_obj /= None => item_obj.quantidade >= 0
    /\ \A j \in 1..Len(extracted_items) : extracted_items[j]["Quantidade"] >= 0
    /\ \A j \in 1..Len(df) : df[j]["Quantidade"] >= 0

\* C10, amended: every record and every row has an integer quantity, the value
\* of the quantity node's value attribute read as a signed integer literal: it
\* is >= 0 unless the literal carries a minus sign, and a negative one is
\* passed through as it is.
C10_QuantityIsSignedLiteral ==
    LET good == Good(Processed)
        literal(c) == strip(c.qty.value)
        magnitude(c) == DigitsValue(SelectSeq(literal(c), LAMBDA ch : ch \in Digits))
        reads(q, c) == /\ q \in Int
                       /\ q = IF literal(c)[1] = "-" THEN 0 - magnitude(c) ELSE magnitude(c)
    IN  /\ \A j \in 1..Len(extracted_items) : reads(extracted_items[j]["Quantidade"], good[j])
        /\ \A j \in 1..Len(df) : reads(df[j]["Quantidade"], good[j])
        /\ (pc = "loop" /\ idx > 1 /\ item_obj /= None) =>
               reads(item_obj.quantidade, items_html[idx - 1])

\* A row with quantity -1 was written.
C10_Witness ==
    /\ output_written
    /\ \E j \in 1..Len(df) :
          /\ Good(Len(items_html))[j].qty.value = <<"-", "1">>
          /\ df[j]["Quantidade"] = -1

====
